---- MODULE Spec2Model ----
(***************************************************************************)
(* A model of src/ContentUnderstanding.py: one run of main() is            *)
(*   get_token -> start_analysis -> poll_until_done -> save -> report,     *)
(* against an identity provider and an HTTP service that answer            *)
(* nondeterministically.  Decoded JSON is modelled as tagged records, and  *)
(* Python's .get / len / truthiness / indexing are modelled with the       *)
(* exceptions they raise.                                                  *)
(*                                                                         *)
(* Spec is a whole run, from a fresh process over the files earlier runs   *)
(* left.  ReportSpec is the save-and-report tail of main (lines 100-153)   *)
(* on a wide family of results, run twice on each.                         *)
(* LiveSpec is poll_until_done (lines 67-89) against a service that        *)
(* answers every GET and reaches a terminal status, with weak fairness of  *)
(* the loop's steps.                                                       *)
(***************************************************************************)
EXTENDS Integers, Sequences, FiniteSets, TLC

(***************************************************************************)
(* Bounds of the model.                                                    *)
(***************************************************************************)
MaxPolls == 3          \* GETs issued by one poll_until_done
MaxTicks == 1          \* times the wall clock jumps between two steps of a run
StartTime == 1         \* time.time() when the run starts

(***************************************************************************)
(* Program constants.                                                      *)
(***************************************************************************)
CacheWindow == 3000    \* get_token: now + 3000
SleepInterval == 2     \* poll_until_done: time.sleep(2)
HttpErrorLow == 400    \* requests' raise_for_status: 400 <= status < 600
HttpErrorHigh == 600

(***************************************************************************)
(* Decoded JSON values (what resp.json() returns) and Python's None.       *)
(* An object is an ordered list of <<key, value>> pairs, as a Python dict  *)
(* keeps insertion order.                                                  *)
(***************************************************************************)
JNull == [t |-> "null"]
JStr(s) == [t |-> "str", s |-> s]
JNum(n) == [t |-> "num", n |-> n]
JArr(a) == [t |-> "arr", a |-> a]
JObj(o) == [t |-> "obj", o |-> o]

\* What an operator yields when the Python expression raises.
Raise(e) == [t |-> "exc", e |-> e]
IsExc(v) == "t" \in DOMAIN v /\ v.t = "exc"

HasKey(d, k) == \E i \in 1..Len(d.o) : d.o[i][1] = k
Lookup(d, k) == d.o[CHOOSE i \in 1..Len(d.o) : d.o[i][1] = k][2]

\* d.get(k, default): AttributeError when d is not a dict.
Get(d, k, default) ==
    IF d.t # "obj" THEN Raise("AttributeError")
    ELSE IF HasKey(d, k) THEN Lookup(d, k)
    ELSE default

\* bool(v)
Truthy(v) ==
    CASE v.t = "null" -> FALSE
      [] v.t = "str" -> v.s # ""
      [] v.t = "num" -> v.n # 0
      [] v.t = "arr" -> Len(v.a) > 0
      [] v.t = "obj" -> Len(v.o) > 0
      [] OTHER -> FALSE

\* len(v): TypeError for None and numbers; -1 stands for the raise.
HasLen(v) == v.t \in {"str", "arr", "obj"}
PyLen(v) ==
    CASE v.t = "arr" -> Len(v.a)
      [] v.t = "obj" -> Len(v.o)
      [] v.t = "str" -> IF v.s = "" THEN 0 ELSE 1
      [] OTHER -> -1

\* str(v), as an f-string renders a value.
PyStr(v) ==
    CASE v.t = "null" -> "None"
      [] v.t = "str" -> v.s
      [] v.t = "num" -> ToString(v.n)
      [] v.t = "arr" -> "[...]"
      [] v.t = "obj" -> "{...}"
      [] OTHER -> "?"

\* Index0 reading the last element of a list, contents[-1], instead.
IndexLast(v) ==
    CASE v.t = "arr" -> v.a[Len(v.a)]
      [] v.t = "str" -> JStr(v.s)
      [] v.t = "obj" -> Raise("KeyError")
      [] OTHER -> Raise("TypeError")

\* v[0]: the first element of a list, the first character of a string (the
\* strings of the model have one character), KeyError on a dict (JSON keys
\* are strings), TypeError otherwise.
Index0(v) ==
    CASE v.t = "arr" -> v.a[1]
      [] v.t = "str" -> JStr(v.s)
      [] v.t = "obj" -> Raise("KeyError")
      [] OTHER -> Raise("TypeError")

\* list(d.keys())
Keys(d) == [i \in 1..Len(d.o) |-> d.o[i][1]]

(***************************************************************************)
(* The lines the reporter prints (main, lines 104-153), one per print call.*)
(***************************************************************************)
LDone == [k |-> "done_saved"]
LCount(n) == [k |-> "extracted_items", n |-> n]
LFieldsHeader(n) == [k |-> "extracted_fields", n |-> n]
LRule == [k |-> "rule"]
LField(name, text) == [k |-> "field", name |-> name, text |-> text]
LNoFields == [k |-> "no_fields_extracted"]
LCauses == [k |-> "this_can_happen_if"]
LCauseFormat == [k |-> "cause_format"]
LCauseQuality == [k |-> "cause_quality"]
LCauseConfig == [k |-> "cause_configuration"]
LKind(text) == [k |-> "content_kind", text |-> text]
LPages(from, to) == [k |-> "pages", from |-> from, to |-> to]
LGroundingPresent == [k |-> "grounding_present"]
LExtractionFailed == [k |-> "field_extraction_failed"]
LKeys(keys) == [k |-> "available_keys", keys |-> keys]
LNoContent == [k |-> "no_content_items"]
LNoContentHint == [k |-> "check_document_url"]

\* The outcome of a run of print statements: what was printed, and the
\* exception that ended it ("none": it ran to its end).
Printed(out) == [out |-> out, exc |-> "none"]
Raised(out, e) == [out |-> out, exc |-> e]

\* Lines 121-134: one field's line, or the exception raised while making it.
FieldLine(field_name, field_value) ==
    LET field_type == Get(field_value, "type", JStr("unknown")) IN
    IF IsExc(field_type) THEN field_type
    ELSE IF field_type = JStr("string")
        THEN LField(field_name, PyStr(Get(field_value, "valueString", JNull)))
    ELSE IF field_type = JStr("number")
        THEN LField(field_name, PyStr(Get(field_value, "valueNumber", JNull)))
    ELSE IF field_type = JStr("date")
        THEN LField(field_name, PyStr(Get(field_value, "valueDate", JNull)))
    ELSE IF field_type = JStr("array")
        THEN LET arr == Get(field_value, "valueArray", JArr(<<>>)) IN
             IF HasLen(arr)
             THEN LField(field_name, "[" \o ToString(PyLen(arr)) \o " items]")
             ELSE Raise("TypeError")
    ELSE IF field_type = JStr("object")
        THEN LField(field_name, "[object]")
    ELSE LField(field_name, "(" \o PyStr(field_type) \o ")")

\* Lines 120-134: the loop over fields.items().
RECURSIVE PrintFields(_, _, _)
PrintFields(items, i, out) ==
    IF i > Len(items) THEN Printed(out)
    ELSE LET line == FieldLine(items[i][1], items[i][2]) IN
         IF IsExc(line) THEN Raised(out, line.e)
         ELSE PrintFields(items, i + 1, Append(out, line))

\* HasGrounding with the "text" alternative forgotten.
HasGroundingMarkdownOnly(first_content) ==
    Truthy(Get(first_content, "markdown", JNull))

\* Line 145: first_content.get("markdown") or first_content.get("text")
HasGrounding(first_content) ==
    \/ Truthy(Get(first_content, "markdown", JNull))
    \/ Truthy(Get(first_content, "text", JNull))

\* Lines 136-150: the diagnostic for a content item without fields.
NoFieldsDiagnostic(first_content, out) ==
    Printed(out
        \o <<LNoFields, LCauses, LCauseFormat, LCauseQuality, LCauseConfig,
             LKind(PyStr(Get(first_content, "kind", JNull))),
             LPages(PyStr(Get(first_content, "startPageNumber", JNull)),
                    PyStr(Get(first_content, "endPageNumber", JNull)))>>
        \o (IF HasGrounding(first_content)
            THEN <<LGroundingPresent, LExtractionFailed>> ELSE <<>>)
        \o <<LKeys(Keys(first_content))>>)

\* Lines 114-150: the report of the first content item.
ReportFirst(first_content, out) ==
    LET fields == Get(first_content, "fields", JObj(<<>>)) IN
    IF IsExc(fields) THEN Raised(out, fields.e)
    ELSE IF Truthy(fields)
    THEN IF ~HasLen(fields) THEN Raised(out, "TypeError")
         ELSE LET out2 == out \o <<LFieldsHeader(PyLen(fields)), LRule>> IN
              IF fields.t # "obj" THEN Raised(out2, "AttributeError")
              ELSE PrintFields(fields.o, 1, out2)
    ELSE NoFieldsDiagnostic(first_content, out)

\* Lines 108-153: the Result Reporter, on the value poll_until_done returned.
Report(analysis_result) ==
    LET result == Get(analysis_result, "result", analysis_result) IN
    IF IsExc(result) THEN Raised(<<>>, result.e)
    ELSE LET contents == Get(result, "contents", JArr(<<>>)) IN
    IF IsExc(contents) THEN Raised(<<>>, contents.e)
    ELSE IF ~HasLen(contents) THEN Raised(<<>>, "TypeError")
    ELSE LET out == <<LCount(PyLen(contents))>> IN
    IF ~Truthy(contents) THEN Printed(out \o <<LNoContent, LNoContentHint>>)
    ELSE LET first_content == Index0(contents) IN
    IF IsExc(first_content) THEN Raised(out, first_content.e)
    ELSE ReportFirst(first_content, out)

\* Line 102: json.dump(analysis_result, f, indent=2), the text written.
Dump(v) == [t |-> "json_text", indent |-> 2, of |-> v]

\* WriteResultFile with the file opened "a": the dump follows the old text.
WriteResultFileAppend(old, analysis_result) ==
    [t |-> "json_text", indent |-> 2, of |-> <<old, analysis_result>>]

\* Line 101: open("cu_result.json", "w") truncates, then the dump is written.
WriteResultFile(old, analysis_result) == Dump(analysis_result)

\* AppendRequestLog with the file opened "w": the line replaces the log.
OverwriteRequestLog(log, request_id) == <<request_id>>

\* Line 57: open("requests.txt", "a") appends one line.
AppendRequestLog(log, request_id) == Append(log, request_id)

(***************************************************************************)
(* The Credential Provider.                                                *)
(***************************************************************************)
PyNone == "<None>"
\* bool(s) of an Optional[str]
StrTruthy(s) == s # PyNone /\ s # ""

Tokens == {"tokA", "tokB"}
AuthFailure == "<ClientAuthenticationError>"
IdpReplies == Tokens \cup {AuthFailure}

\* Line 38: the lifetime of the token in token_response (its expires_on less
\* the time of the call), which get_token does not read: the hour of a fresh
\* token, and the ten minutes left of one the credential had cached.
DefaultLifetime == 3600
TokenLifetimes == {600, DefaultLifetime}

\* CacheValid with the expiry instant itself still inside the window.
CacheValidInclusive(cache, time) == StrTruthy(cache.token) /\ time <= cache.expires

\* Line 34: the cached token is used.
CacheValid(cache, time) == StrTruthy(cache.token) /\ time < cache.expires

\* get_token emptying the cache slot before it asks for a new token.
get_token_clearing(cache, time, reply) ==
    IF CacheValid(cache, time)
    THEN [token |-> cache.token, cache |-> cache, called |-> FALSE, ok |-> TRUE]
    ELSE IF reply = AuthFailure
    THEN [token |-> PyNone, cache |-> [token |-> PyNone, expires |-> 0],
          called |-> TRUE, ok |-> FALSE]
    ELSE [token |-> reply,
          cache |-> [token |-> reply, expires |-> time + CacheWindow],
          called |-> TRUE, ok |-> TRUE]

\* Lines 31-41: get_token() at time `time`, the identity provider answering
\* `reply` if asked.  called: the identity provider was asked; ok: a token
\* came back (otherwise the provider's exception propagates).
get_token(cache, time, reply) ==
    IF CacheValid(cache, time)
    THEN [token |-> cache.token, cache |-> cache, called |-> FALSE, ok |-> TRUE]
    ELSE IF reply = AuthFailure
    THEN [token |-> PyNone, cache |-> cache, called |-> TRUE, ok |-> FALSE]
    ELSE [token |-> reply,
          cache |-> [token |-> reply, expires |-> time + CacheWindow],
          called |-> TRUE, ok |-> TRUE]

(***************************************************************************)
(* The Analysis Submitter.  A response to the POST: its status code and    *)
(* the three headers the code reads (PyNone: the header is not there).     *)
(***************************************************************************)
\* sent = FALSE: no response came back, requests raised a ConnectionError.
NoResponse == [sent |-> FALSE]
PostCodes == {200, 202, 304, 404, 500}
RequestIdValues == {PyNone, "", "rid-x"}
ApimIdValues == {PyNone, "rid-a"}
OperationLocations == {PyNone, "", "opA", "opB"}
PostResponses ==
    [sent : {TRUE}, code : PostCodes, xms : RequestIdValues, apim : ApimIdValues,
     oploc : OperationLocations]
    \cup {NoResponse}

\* RaisesForStatus raising for server errors only.
RaisesForServerError(code) == 500 <= code /\ code < HttpErrorHigh

\* Line 51 / 76: resp.raise_for_status() raises.
RaisesForStatus(code) == HttpErrorLow <= code /\ code < HttpErrorHigh

\* Line 54: a or b, on Optional[str].
PyOr(a, b) == IF StrTruthy(a) THEN a ELSE b

\* MissingHeader with the check of line 62 left out.
MissingHeaderUnchecked(op_url) == FALSE

\* MissingHeader testing `op_url is None` instead of `not op_url`.
MissingHeaderIsNone(op_url) == op_url = PyNone

\* Line 62: if not op_url
MissingHeader(op_url) == ~StrTruthy(op_url)

\* Lines 50-64: start_analysis on response r.  exc: what it raises ("none":
\* it returns op_url); logged: whether a line was appended to requests.txt.
start_analysis(r) ==
    IF ~r.sent
    THEN [exc |-> "ConnectionError", logged |-> FALSE, request_id |-> PyNone,
          read_oploc |-> FALSE, op_url |-> PyNone]
    ELSE IF RaisesForStatus(r.code)
    THEN [exc |-> "HTTPError", logged |-> FALSE, request_id |-> PyNone,
          read_oploc |-> FALSE, op_url |-> PyNone]
    ELSE LET request_id == PyOr(r.xms, r.apim) IN
         [exc |-> IF MissingHeader(r.oploc) THEN "RuntimeError" ELSE "none",
          logged |-> StrTruthy(request_id),
          request_id |-> request_id,
          read_oploc |-> TRUE,
          op_url |-> IF MissingHeader(r.oploc) THEN PyNone ELSE r.oploc]

(***************************************************************************)
(* The Operation Poller.  The bodies the service may answer a GET with.    *)
(***************************************************************************)
Status(s) == <<"status", JStr(s)>>
OpId == <<"id", JStr("op")>>
ErrorPayload == JObj(<< <<"code", JStr("InvalidRequest")>> >>)

StringField(v) == JObj(<< <<"type", JStr("string")>>, <<"valueString", JStr(v)>> >>)
NumberField(n) == JObj(<< <<"type", JStr("number")>>, <<"valueNumber", JNum(n)>> >>)
DateField(v) == JObj(<< <<"type", JStr("date")>>, <<"valueDate", JStr(v)>> >>)
ArrayField(a) == JObj(<< <<"type", JStr("array")>>, <<"valueArray", a>> >>)
ObjectField == JObj(<< <<"type", JStr("object")>>, <<"valueObject", JObj(<<>>)>> >>)

Kind == <<"kind", JStr("document")>>
Pages == <<"startPageNumber", JNum(1)>>
InvoiceItem == JObj(<< Kind, Pages, <<"fields", JObj(<< <<"InvoiceId", StringField("INV-1")>> >>)>> >>)
TypedItem ==
    JObj(<< Kind, <<"markdown", JStr("some text")>>,
            <<"fields", JObj(<< <<"Vendor", StringField("Acme")>>,
                                <<"Total", NumberField(42)>>,
                                <<"Due", DateField("2025-01-31")>>,
                                <<"Items", ArrayField(JArr(<<ObjectField, ObjectField>>))>>,
                                <<"Address", ObjectField>>,
                                <<"Paid", JObj(<< <<"type", JStr("boolean")>> >>)>>,
                                <<"Note", JObj(<< <<"valueString", JStr("n")>> >>)>> >>)>> >>)
OtherItem == JObj(<< Kind, <<"fields", JObj(<< <<"Second", StringField("x")>> >>)>> >>)
AbsentFields == JObj(<< Kind, Pages >>)

Contents(items) == JObj(<< <<"analyzerId", JStr("prebuilt-invoice")>>, <<"contents", JArr(items)>> >>)
Envelope(result) == JObj(<< OpId, Status("Succeeded"), <<"result", result>> >>)

\* The Succeeded bodies of the full runs.
SucceededBodies ==
    { Envelope(Contents(<<InvoiceItem>>)),
      Envelope(Contents(<<TypedItem>>)),
      Envelope(Contents(<<>>)),
      Envelope(JNull) }

PendingBodies ==
    { JObj(<< OpId, Status("Running") >>),
      JObj(<< OpId, Status("NotStarted") >>),
      JObj(<< OpId >>) }

FailedBodies ==
    { JObj(<< OpId, Status("Failed"), <<"error", ErrorPayload>> >>),
      JObj(<< OpId, Status("Failed") >>),
      JObj(<< OpId, Status("Canceled"), <<"error", JNull>> >>),
      JObj(<< OpId, Status("Canceled") >>) }

\* A body that is no JSON text (resp.json() raises), and JSON that is no object.
NotJson == [t |-> "not_json"]
PollBodies == SucceededBodies \cup PendingBodies \cup FailedBodies \cup {JArr(<<>>)}

GetErrorCodes == {404, 503}
GetResponses ==
    {NoResponse}
    \cup [sent : {TRUE}, code : GetErrorCodes, body : {NotJson}]
    \cup [sent : {TRUE}, code : {200}, body : PollBodies \cup {NotJson}]

\* LoopCondition with a maximum number of polls.
LoopConditionMaxPolls(polls) == polls < 2

\* Line 73: while True, the condition of the loop after `polls` GETs.
LoopCondition(polls) == TRUE

\* PollDecision sleeping on "Running" only: any other status ends the loop.
PollDecisionRunningOnly(status) ==
    IF status = JStr("Running") THEN "sleep"
    ELSE IF status \in {JStr("Failed"), JStr("Canceled")} THEN "raise"
    ELSE "return"

\* PollDecision taking Canceled for a status that may still change.
PollDecisionCanceledPending(status) ==
    IF status = JStr("Succeeded") THEN "return"
    ELSE IF status = JStr("Failed") THEN "raise"
    ELSE "sleep"

\* PollDecision salvaging what a Failed operation carries: it returns it.
PollDecisionSalvage(status) ==
    IF status \in {JStr("Succeeded"), JStr("Failed")} THEN "return"
    ELSE IF status = JStr("Canceled") THEN "raise"
    ELSE "sleep"

\* Lines 83-89: what the loop does with a decoded body's status.
PollDecision(status) ==
    IF status = JStr("Succeeded") THEN "return"
    ELSE IF status \in {JStr("Failed"), JStr("Canceled")} THEN "raise"
    ELSE "sleep"

\* PollReturn returning the unwrapped data["result"].
PollReturnUnwrapped(data) == Get(data, "result", data)

\* Line 85: the value returned on Succeeded.
PollReturn(data) == data

\* PollErrorPayload always embedding the whole response.
PollErrorPayloadWhole(data) == data

\* Line 87: the payload embedded in the RuntimeError.
PollErrorPayload(data) == Get(data, "error", data)

\* OnRequestError swallowing the exception: sleep and try again.
OnRequestErrorRetry(exc) ==
    [exc |-> "none", decision |-> "sleep", value |-> JNull, payload |-> JNull]

\* Lines 75-77: nothing catches what requests.get, raise_for_status or
\* resp.json() raise: the exception leaves poll_until_done.
OnRequestError(exc) ==
    [exc |-> exc, decision |-> "raise", value |-> JNull, payload |-> JNull]

\* Lines 75-89: one iteration of the loop after its get_token, on response g.
\* exc "none" with decision "return": poll_until_done returns `value`;
\* exc "none" with decision "sleep": time.sleep(2) and the next iteration.
poll_iteration(g) ==
    IF ~g.sent THEN OnRequestError("ConnectionError")
    ELSE IF RaisesForStatus(g.code) THEN OnRequestError("HTTPError")
    ELSE IF g.body = NotJson THEN OnRequestError("JSONDecodeError")
    ELSE LET data == g.body
             status == Get(data, "status", JNull) IN
    IF IsExc(status) THEN OnRequestError(status.e)
    ELSE IF PollDecision(status) = "return"
    THEN [exc |-> "none", decision |-> "return", value |-> PollReturn(data), payload |-> JNull]
    ELSE IF PollDecision(status) = "raise"
    THEN [exc |-> "RuntimeError", decision |-> "raise", value |-> JNull,
          payload |-> PollErrorPayload(data)]
    ELSE [exc |-> "none", decision |-> "sleep", value |-> JNull, payload |-> JNull]

(***************************************************************************)
(* The results the reporter is checked on: every content item made of a    *)
(* "fields", a "markdown" and a "text" entry, each absent or one of the    *)
(* values below, alone or followed by a second item; and results whose     *)
(* "result" or "contents" are not what the reporter expects.               *)
(***************************************************************************)
Absent == [t |-> "absent"]
Entry(key, v) == IF v = Absent THEN <<>> ELSE << <<key, v>> >>
MakeItem(fields, markdown, text) ==
    JObj(<<Kind>> \o Entry("fields", fields) \o Entry("markdown", markdown)
         \o Entry("text", text))

FieldsChoices ==
    { Absent, JNull, JObj(<<>>), JArr(<<>>),
      JObj(<< <<"InvoiceId", StringField("INV-1")>> >>),
      JObj(<< <<"Vendor", StringField("Acme")>>, <<"Total", NumberField(42)>> >>),
      JObj(<< <<"Items", ArrayField(JArr(<<ObjectField>>))>>, <<"Paid", JObj(<<>>)>> >>),
      JObj(<< <<"Vendor", StringField("Acme")>>, <<"Total", JNull>> >>),
      JObj(<< <<"Items", ArrayField(JNull)>> >>),
      JStr("x"), JNum(7) }
MarkdownChoices == {Absent, JNull, JStr(""), JStr("some text")}
TextChoices == {Absent, JStr(""), JStr("t")}
Items ==
    {MakeItem(f, m, t) : f \in FieldsChoices, m \in MarkdownChoices, t \in TextChoices}
    \cup {InvoiceItem, TypedItem, AbsentFields}

ReportInputs ==
    {Envelope(Contents(<<i>>)) : i \in Items}
    \cup {Envelope(Contents(<<i, OtherItem>>)) : i \in Items}
    \cup { Envelope(Contents(<<>>)),
           Envelope(Contents(<<JNull>>)),
           Envelope(Contents(<<JStr("x")>>)),
           Envelope(JObj(<< <<"contents", JNull>> >>)),
           Envelope(JObj(<< <<"contents", JStr("")>> >>)),
           Envelope(JObj(<< <<"contents", JObj(<< <<"0", InvoiceItem>> >>)>> >>)),
           Envelope(JObj(<< <<"warnings", JArr(<<>>)>> >>)),
           Envelope(JNull),
           Envelope(JArr(<<>>)),
           \* no "result" key: the reporter reads "contents" of the envelope itself
           JObj(<< OpId, Status("Succeeded") >>),
           JObj(<< Status("Succeeded"), <<"contents", JArr(<<InvoiceItem>>)>> >>) }

(***************************************************************************)
(* The state of the script and of the two files it leaves behind.          *)
(***************************************************************************)
VARIABLES
    pc,              \* where main() is: start, submit, poll_start, poll_token,
                     \* poll_get, poll_sleep, save, report, done, raised
    now,             \* time.time()
    ticks,           \* clock jumps so far
    token_cache,     \* _token_cache
    token,           \* the token of the last get_token() call (PyNone: none)
    op_url,          \* main's op_url (PyNone before start_analysis returned)
    analysis_result, \* main's analysis_result (NoValue before the poller returned)
    err,             \* the uncaught exception that ended the run
    requests_txt,    \* the lines of requests.txt
    cu_result_json,  \* the text of cu_result.json (NoFile: it does not exist)
    out,             \* what the reporter (lines 104-153) printed
    \* what the run did so far, for the properties
    calls,           \* the last two get_token calls: <<previous, last>>
    idp_calls,       \* calls to the identity provider
    post,            \* start_analysis' resp and what was done with it, until
                     \* main goes on to poll
    get,             \* the response to the last GET (NoGet: none sent)
    get_url,         \* the URL of the last GET
    posts, gets, sleeps, pending, writes,
    files0,          \* the two files as the run found them
    real_expiry,     \* when the token in hand really expires (its expires_on)
    first_report     \* the outcome of an earlier save-and-report of the same result

vars == <<pc, now, ticks, token_cache, token, op_url, analysis_result, err,
          requests_txt, cu_result_json, out, calls, idp_calls, post, get, get_url,
          posts, gets, sleeps, pending, writes, files0, real_expiry,
          first_report>>

NoValue == [t |-> "unset"]
NoFile == [t |-> "no_file"]
NoError == [type |-> "none"]
NoPost == [r |-> [sent |-> FALSE, code |-> "unsent"]]
NoGet == [sent |-> FALSE, code |-> "unsent"]
NoCall == [made |-> FALSE]
NoReport == [made |-> FALSE]
EmptyCache == [token |-> PyNone, expires |-> 0]

\* What earlier runs may have left in requests.txt and cu_result.json.
EarlierLogs == {<<>>, <<"rid-0">>}
EarlierResults == {NoFile, Dump(Envelope(Contents(<<InvoiceItem>>)))}

\* The state of a freshly started process (module level, lines 21-28).
Init ==
    /\ pc = "start"
    /\ now = StartTime
    /\ ticks = 0
    /\ token_cache = EmptyCache
    /\ token = PyNone
    /\ op_url = PyNone
    /\ analysis_result = NoValue
    /\ err = NoError
    /\ out = <<>>
    /\ calls = <<NoCall, NoCall>>
    /\ idp_calls = 0
    /\ post = NoPost
    /\ get = NoGet
    /\ get_url = PyNone
    /\ posts = 0 /\ gets = 0 /\ sleeps = 0 /\ pending = 0 /\ writes = 0
    /\ requests_txt \in EarlierLogs
    /\ cu_result_json \in EarlierResults
    /\ files0 = [log |-> requests_txt, result |-> cu_result_json]
    /\ first_report = NoReport
    /\ real_expiry = 0

\* The clock steps the model takes: a second, and jumps to just below and to
\* the cache window.
ClockSteps == {1, CacheWindow - 1, CacheWindow}

\* Time passes between two steps of a run.
Tick ==
    /\ pc \notin {"done", "raised"}
    /\ ticks < MaxTicks
    /\ \E d \in ClockSteps : now' = now + d
    /\ ticks' = ticks + 1
    /\ UNCHANGED <<pc, token_cache, token, op_url, analysis_result, err,
                   requests_txt, cu_result_json, out, calls, idp_calls, post, get,
                   get_url, posts, gets, sleeps, pending, writes, files0,
                   first_report,
                   real_expiry>>

\* A get_token() call (lines 94 and 74), the identity provider answering with
\* one of `replies` and a token lifetime, and where main goes when it returns.
CallGetTokenFrom(replies, next) ==
    \E reply \in replies, life \in TokenLifetimes :
        LET r == get_token(token_cache, now, reply) IN
        /\ reply = AuthFailure => life = DefaultLifetime
        /\ token_cache' = r.cache
        /\ real_expiry' = IF r.called /\ r.ok THEN now + life ELSE real_expiry
        /\ token' = r.token
        /\ idp_calls' = IF r.called THEN idp_calls + 1 ELSE idp_calls
        /\ calls' = <<calls[2], [made |-> TRUE, at |-> now, called |-> r.called,
                                 ok |-> r.ok, token |-> r.token,
                                 after |-> r.cache, idp |-> idp_calls']>>
        /\ pc' = IF r.ok THEN next ELSE "raised"
        /\ err' = IF r.ok THEN err ELSE [type |-> "ClientAuthenticationError", in |-> pc]

\* The call in a run of main: the provider issues a token or refuses.
CallGetToken(next) == CallGetTokenFrom(IdpReplies, next)

\* Line 94: token = get_token()
main_get_token ==
    /\ pc = "start"
    /\ CallGetToken("submit")
    /\ UNCHANGED <<now, ticks, op_url, analysis_result, requests_txt,
                   cu_result_json, out, post, get, get_url, posts, gets, sleeps,
                   pending, writes, files0, first_report>>

\* Line 95: op_url = start_analysis(token)
main_start_analysis ==
    /\ pc = "submit"
    /\ \E r \in PostResponses :
        LET s == start_analysis(r) IN
        /\ post' = [r |-> r, logged |-> s.logged, read_oploc |-> s.read_oploc]
        /\ posts' = posts + 1
        /\ requests_txt' = IF s.logged THEN AppendRequestLog(requests_txt, s.request_id)
                           ELSE requests_txt
        /\ op_url' = s.op_url
        /\ pc' = IF s.exc = "none" THEN "poll_start" ELSE "raised"
        /\ err' = IF s.exc = "none" THEN err ELSE [type |-> s.exc, in |-> pc]
    /\ UNCHANGED <<now, ticks, token_cache, token, analysis_result,
                   cu_result_json, out, calls, idp_calls, get, get_url, gets, sleeps,
                   pending, writes, files0, first_report,
                   real_expiry>>

\* Lines 97-98 and 72: main calls poll_until_done(op_url); start_analysis'
\* frame, its resp with it, is gone.
main_poll_until_done ==
    /\ pc = "poll_start"
    /\ pc' = "poll_token"
    /\ post' = NoPost
    /\ UNCHANGED <<now, ticks, token_cache, token, op_url, analysis_result, err,
                   requests_txt, cu_result_json, out, calls, idp_calls, get, get_url,
                   posts, gets, sleeps, pending, writes, files0, first_report,
                   real_expiry>>

\* Line 74: token = get_token(), at the top of each iteration.
poll_get_token ==
    /\ pc = "poll_token"
    /\ gets < MaxPolls
    /\ CallGetToken("poll_get")
    /\ UNCHANGED <<now, ticks, op_url, analysis_result, requests_txt,
                   cu_result_json, out, post, get, get_url, posts, gets, sleeps,
                   pending, writes, files0, first_report>>

\* A response whose decoded body is an object with a status other than
\* Succeeded, Failed or Canceled, or with none (counted in `pending`).
NonTerminalResponse(g) ==
    /\ g.sent
    /\ g.code \in 200..299
    /\ g.body.t = "obj"
    /\ \/ ~HasKey(g.body, "status")
       \/ Lookup(g.body, "status") \notin {JStr("Succeeded"), JStr("Failed"), JStr("Canceled")}

\* Lines 75-87: the GET, answered by one of `responses`, and what the loop
\* makes of the answer.
PollRequest(responses) ==
    /\ \E g \in responses :
        LET p == poll_iteration(g) IN
        /\ get' = g
        /\ get_url' = op_url
        /\ gets' = gets + 1
        /\ pending' = IF NonTerminalResponse(g) THEN pending + 1 ELSE pending
        /\ analysis_result' = IF p.exc = "none" /\ p.decision = "return"
                              THEN p.value ELSE analysis_result
        /\ pc' = IF p.exc # "none" THEN "raised"
                 ELSE IF p.decision = "return" THEN "save" ELSE "poll_sleep"
        /\ err' = IF p.exc = "none" THEN err
                  ELSE [type |-> p.exc, in |-> pc, payload |-> p.payload]
    /\ UNCHANGED <<now, ticks, token_cache, token, op_url, requests_txt,
                   cu_result_json, out, calls, idp_calls, post, posts, sleeps,
                   writes, files0, first_report,
                   real_expiry>>

\* Lines 75-87 in a run of main: any response, or none.
poll_request ==
    /\ pc = "poll_get"
    /\ PollRequest(GetResponses)

\* Lines 89 and 73: time.sleep(2), and back to the top of the loop (a loop
\* that ended would make poll_until_done return None).
poll_sleep ==
    /\ pc = "poll_sleep"
    /\ now' = now + SleepInterval
    /\ sleeps' = sleeps + 1
    /\ pc' = IF LoopCondition(gets) THEN "poll_token" ELSE "save"
    /\ analysis_result' = IF LoopCondition(gets) THEN analysis_result ELSE JNull
    /\ UNCHANGED <<ticks, token_cache, token, op_url, err,
                   requests_txt, cu_result_json, out, calls, idp_calls, post, get,
                   get_url, posts, gets, pending, writes, files0, first_report,
                   real_expiry>>

\* Lines 101-104: the result file is written, and "Done!" printed.
main_save ==
    /\ pc = "save"
    /\ cu_result_json' = WriteResultFile(cu_result_json, analysis_result)
    /\ writes' = writes + 1
    /\ out' = Append(out, LDone)
    /\ pc' = "report"
    /\ UNCHANGED <<now, ticks, token_cache, token, op_url, analysis_result, err,
                   requests_txt, calls, idp_calls, post, get, get_url, posts, gets,
                   sleeps, pending, files0, first_report,
                   real_expiry>>

\* Lines 108-153: the report; main returns, or an exception ends the run.
main_report ==
    /\ pc = "report"
    /\ LET r == Report(analysis_result) IN
        /\ out' = out \o r.out
        /\ pc' = IF r.exc = "none" THEN "done" ELSE "raised"
        /\ err' = IF r.exc = "none" THEN err ELSE [type |-> r.exc, in |-> pc]
    /\ UNCHANGED <<now, ticks, token_cache, token, op_url, analysis_result,
                   requests_txt, cu_result_json, calls, idp_calls, post, get, get_url,
                   posts, gets, sleeps, pending, writes, files0, first_report,
                   real_expiry>>

Next ==
    \/ Tick
    \/ main_get_token
    \/ main_start_analysis
    \/ main_poll_until_done
    \/ poll_get_token
    \/ poll_request
    \/ poll_sleep
    \/ main_save
    \/ main_report

Spec == Init /\ [][Next]_vars

(***************************************************************************)
(* The save-and-report step on its own: main is where poll_until_done has  *)
(* just returned analysis_result (token, POST and one GET behind it), for  *)
(* every result of ReportInputs; and the step is run a second time on the  *)
(* same result.                                                            *)
(***************************************************************************)
InitReport ==
    /\ pc = "save"
    /\ now = StartTime
    /\ ticks = 0
    /\ token_cache = [token |-> "tokA", expires |-> StartTime + CacheWindow]
    /\ token = "tokA"
    /\ op_url = "opA"
    /\ analysis_result \in ReportInputs
    /\ err = NoError
    /\ out = <<>>
    /\ calls = <<[made |-> TRUE, at |-> StartTime, called |-> TRUE, ok |-> TRUE,
                  token |-> "tokA", after |-> token_cache, idp |-> 1],
                 [made |-> TRUE, at |-> StartTime, called |-> FALSE, ok |-> TRUE,
                  token |-> "tokA", after |-> token_cache, idp |-> 1]>>
    /\ idp_calls = 1
    /\ post = NoPost
    /\ get = [sent |-> TRUE, code |-> 200, body |-> analysis_result]
    /\ get_url = "opA"
    /\ posts = 1 /\ gets = 1 /\ sleeps = 0 /\ pending = 0 /\ writes = 0
    /\ requests_txt \in EarlierLogs
    /\ cu_result_json \in EarlierResults
    /\ files0 = [log |-> requests_txt, result |-> cu_result_json]
    /\ first_report = NoReport
    /\ real_expiry = StartTime + DefaultLifetime

\* Lines 100-153 are run again on the same analysis_result: what the first
\* time printed and wrote is kept for comparison.
report_again ==
    /\ pc \in {"done", "raised"}
    /\ first_report = NoReport
    /\ first_report' = [made |-> TRUE, printed |-> out, file |-> cu_result_json,
                        exc |-> err.type]
    /\ pc' = "save"
    /\ out' = <<>>
    /\ err' = NoError
    /\ UNCHANGED <<now, ticks, token_cache, token, op_url, analysis_result,
                   requests_txt, cu_result_json, calls, idp_calls, post, get, get_url,
                   posts, gets, sleeps, pending, writes, files0,
                   real_expiry>>

NextReport ==
    \/ main_save
    \/ main_report
    \/ report_again

ReportSpec == InitReport /\ [][NextReport]_vars

(***************************************************************************)
(* poll_until_done on its own, under the assumptions of its termination:   *)
(* the identity provider issues a token whenever asked, every GET is       *)
(* answered 200 with a decoded object, the operation has reached a         *)
(* terminal status by the MaxPolls-th GET at the latest, and every call,   *)
(* request and sleep of the loop completes (weak fairness of its steps).   *)
(***************************************************************************)
AnsweredBodies == SucceededBodies \cup PendingBodies \cup FailedBodies
TerminalBodies == SucceededBodies \cup FailedBodies
\* What the service answers the n-th GET with.
ServiceAnswers(n) ==
    [sent : {TRUE}, code : {200},
     body : IF n < MaxPolls THEN AnsweredBodies ELSE TerminalBodies]

\* main has just called poll_until_done(op_url) (lines 97-98): a token was
\* fetched and the POST answered with an operation URL.
InitLive ==
    /\ pc = "poll_token"
    /\ now = StartTime
    /\ ticks = 0
    /\ token_cache = [token |-> "tokA", expires |-> StartTime + CacheWindow]
    /\ token = "tokA"
    /\ op_url \in OperationLocations \ {PyNone, ""}
    /\ analysis_result = NoValue
    /\ err = NoError
    /\ out = <<>>
    /\ calls = <<NoCall,
                 [made |-> TRUE, at |-> StartTime, called |-> TRUE, ok |-> TRUE,
                  token |-> "tokA", after |-> token_cache, idp |-> 1]>>
    /\ idp_calls = 1
    /\ post = NoPost
    /\ get = NoGet
    /\ get_url = PyNone
    /\ posts = 1 /\ gets = 0 /\ sleeps = 0 /\ pending = 0 /\ writes = 0
    /\ requests_txt \in EarlierLogs
    /\ cu_result_json \in EarlierResults
    /\ files0 = [log |-> requests_txt, result |-> cu_result_json]
    /\ real_expiry = StartTime + DefaultLifetime
    /\ first_report = NoReport

\* Line 74, the identity provider issuing a token if asked.
live_get_token ==
    /\ pc = "poll_token"
    /\ gets < MaxPolls
    /\ CallGetTokenFrom(Tokens, "poll_get")
    /\ UNCHANGED <<now, ticks, op_url, analysis_result, requests_txt,
                   cu_result_json, out, post, get, get_url, posts, gets, sleeps,
                   pending, writes, files0, first_report>>

\* Lines 75-87, the service answering.
live_request ==
    /\ pc = "poll_get"
    /\ PollRequest(ServiceAnswers(gets + 1))

NextLive ==
    \/ Tick
    \/ live_get_token
    \/ live_request
    \/ poll_sleep

LiveSpec ==
    /\ InitLive /\ [][NextLive]_vars
    /\ WF_vars(live_get_token) /\ WF_vars(live_request) /\ WF_vars(poll_sleep)

(***************************************************************************)
(* Properties.                                                             *)
(***************************************************************************)
StatusOf(body) == IF HasKey(body, "status") THEN Lookup(body, "status") ELSE Absent
\* The last GET was answered by a decoded object with this status.
Answered(status) ==
    /\ gets > 0 /\ get.sent /\ get.code \in 200..299
    /\ get.body.t = "obj" /\ StatusOf(get.body) = status
\* The run has stopped: no step of main is left to take.
Stopped == ~ENABLED Next

\* C1: when k responses with a status other than Succeeded, Failed or
\* Canceled (or with none) are followed by a Succeeded response,
\* poll_until_done has issued exactly k+1 GETs and slept exactly k times when
\* it returns, and returns the decoded body of the last response unchanged,
\* its "result" key included; when the first response is Failed it raises
\* having slept zero times.
C1_PollCounts ==
    /\ analysis_result # NoValue =>
          /\ Answered(JStr("Succeeded"))
          /\ gets = pending + 1
          /\ sleeps = pending
          /\ analysis_result = get.body
          /\ HasKey(analysis_result, "result")
    /\ Answered(JStr("Succeeded")) => analysis_result # NoValue
    /\ (Answered(JStr("Failed")) /\ pending = 0) =>
          /\ pc = "raised" /\ err.type = "RuntimeError"
          /\ gets = 1 /\ sleeps = 0

\* Running, an unknown status, then Succeeded: returned after two sleeps.
C1_Witness ==
    /\ pc = "save" /\ Answered(JStr("Succeeded"))
    /\ pending = 2 /\ sleeps = 2 /\ gets = 3

\* C2: of two consecutive get_token calls at t1 <= t2 of which the first
\* fetched a token, the second asks the identity provider nothing and returns
\* the same token when t2 < t1 + 3000, and asks the identity provider when
\* t2 >= t1 + 3000, the token it gets replacing the cached token and expiry.
C2_CacheWindow ==
    LET first == calls[1]
        second == calls[2]
    IN (first.made /\ second.made /\ first.called /\ first.ok) =>
          /\ first.at <= second.at
          /\ second.at < first.at + 3000 =>
                /\ ~second.called
                /\ second.token = first.token
                /\ second.after = first.after
          /\ second.at >= first.at + 3000 =>
                /\ second.called
                /\ second.ok => /\ second.token \in Tokens
                                /\ second.after = [token |-> second.token,
                                                   expires |-> second.at + 3000]
                                /\ token_cache = second.after

\* The second call comes exactly 3000 seconds after the first and fetches.
C2_Witness ==
    /\ calls[1].made /\ calls[1].called /\ calls[1].ok
    /\ calls[2].made /\ calls[2].at = calls[1].at + 3000
    /\ calls[2].called /\ calls[2].ok
    /\ pc = "poll_get"

\* start_analysis has handled a response with a 2xx status.
Posted2xx == post.r.sent /\ post.r.code \in 200..299

\* C3 as claimed: on a 2xx response, start_analysis returns the value of the
\* Operation-Location header whenever the response carries one, and raises
\* the RuntimeError, with no handle and no GET, only when it carries none.
C3_AsClaimed ==
    Posted2xx =>
        IF post.r.oploc # PyNone
        THEN pc = "poll_start" /\ op_url = post.r.oploc
        ELSE /\ pc = "raised" /\ err.type = "RuntimeError"
             /\ op_url = PyNone /\ gets = 0

\* C3, amended: on a 2xx response, start_analysis returns the value X of the
\* Operation-Location header when the response carries one with a non-empty
\* value; when the header is missing or its value is empty it raises the
\* RuntimeError, returns no handle, and no GET is issued in that run.
C3_OperationLocation ==
    Posted2xx =>
        IF post.r.oploc \notin {PyNone, ""}
        THEN pc = "poll_start" /\ op_url = post.r.oploc /\ err = NoError
        ELSE /\ pc = "raised" /\ err.type = "RuntimeError" /\ err.in = "submit"
             /\ op_url = PyNone /\ gets = 0 /\ Stopped

\* A 2xx response with an empty Operation-Location value ended the run.
C3_Witness ==
    /\ Posted2xx /\ post.r.oploc = ""
    /\ pc = "raised" /\ err.type = "RuntimeError"

\* C4: whenever a poll response has status Failed or Canceled,
\* poll_until_done raises and returns nothing; the error embeds the
\* response's "error" entry or, when it has none, the whole response; and no
\* GET or sleep follows that response.
C4_FailedOrCanceled ==
    (Answered(JStr("Failed")) \/ Answered(JStr("Canceled"))) =>
        /\ pc = "raised" /\ err.type = "RuntimeError" /\ err.in = "poll_get"
        /\ analysis_result = NoValue
        /\ err.payload = IF HasKey(get.body, "error")
                         THEN Lookup(get.body, "error") ELSE get.body
        /\ gets = pending + 1 /\ sleeps = pending
        /\ writes = 0
        /\ Stopped

\* After one pending response, a Canceled response without an "error" entry.
C4_Witness ==
    /\ Answered(JStr("Canceled")) /\ ~HasKey(get.body, "error")
    /\ pending = 1 /\ pc = "raised" /\ err.payload = get.body

\* The field lines among the printed lines, in order.
FieldLines(lines) == SelectSeq(lines, LAMBDA l : l.k = "field")
Kinds(lines) == {lines[i].k : i \in 1..Len(lines)}

\* A field value as the service documents it: an object, whose "valueArray",
\* if it has one, is a list.
TypedValue(v) ==
    /\ v.t = "obj"
    /\ HasKey(v, "valueArray") => Lookup(v, "valueArray").t = "arr"

\* An envelope whose result.contents is a single item with a fields mapping
\* of typed values.
OneItemEnvelope(body) ==
    /\ body.t = "obj" /\ HasKey(body, "result")
    /\ LET result == Lookup(body, "result") IN
       /\ result.t = "obj" /\ HasKey(result, "contents")
       /\ LET contents == Lookup(result, "contents") IN
          /\ contents.t = "arr" /\ Len(contents.a) = 1
          /\ LET item == contents.a[1] IN
             /\ item.t = "obj" /\ HasKey(item, "fields")
             /\ LET fields == Lookup(item, "fields") IN
                /\ fields.t = "obj"
                /\ \A i \in 1..Len(fields.o) : TypedValue(fields.o[i][2])
FieldsOfOneItem(body) ==
    Lookup(Lookup(Lookup(body, "result"), "contents").a[1], "fields").o

\* C5: in a full run whose POST succeeds and whose polls end in a Succeeded
\* response with a single content item of n (typed) fields, the whole decoded
\* response, envelope included, is written to the result file exactly once,
\* nothing is reported before that, and the run ends having printed exactly n
\* field lines, one per field in order; for the one string field
\* InvoiceId = INV-1 the only field line is "InvoiceId: INV-1".
C5_EndToEnd ==
    (Answered(JStr("Succeeded")) /\ OneItemEnvelope(get.body)) =>
        /\ pc \in {"save", "report", "done"}
        /\ posts = 1
        /\ pc = "save" => writes = 0 /\ out = <<>>
        /\ pc \in {"report", "done"} =>
              /\ writes = 1
              /\ cu_result_json = Dump(get.body)
              /\ HasKey(cu_result_json.of, "result")
        /\ pc = "report" => FieldLines(out) = <<>>
        /\ pc = "done" =>
              LET fields == FieldsOfOneItem(get.body)
                  lines == FieldLines(out)
              IN /\ Len(lines) = Len(fields)
                 /\ \A i \in 1..Len(fields) : lines[i].name = fields[i][1]
                 /\ get.body = Envelope(Contents(<<InvoiceItem>>)) =>
                       lines = <<[k |-> "field", name |-> "InvoiceId", text |-> "INV-1"]>>

\* Two pending polls, then the InvoiceId result: one field line, file written.
C5_Witness ==
    /\ pc = "done" /\ pending = 2 /\ writes = 1
    /\ get.body = Envelope(Contents(<<InvoiceItem>>))
    /\ FieldLines(out) = <<[k |-> "field", name |-> "InvoiceId", text |-> "INV-1"]>>
    /\ cu_result_json = Dump(Envelope(Contents(<<InvoiceItem>>)))

\* What the reporter reads: the "result" entry, or the envelope without one.
ReportedResult == IF HasKey(analysis_result, "result")
                  THEN Lookup(analysis_result, "result") ELSE analysis_result
ReportedContents == IF HasKey(ReportedResult, "contents")
                    THEN Lookup(ReportedResult, "contents") ELSE JArr(<<>>)
\* The report is over and the result has a list of contents.
ReportedList ==
    /\ pc \in {"done", "raised"} /\ analysis_result # NoValue /\ writes > 0
    /\ ReportedResult.t = "obj" /\ ReportedContents.t = "arr"
NonEmptyText(item, key) ==
    HasKey(item, key) /\ Lookup(item, key).t = "str" /\ Lookup(item, key).s # ""
FirstItem == ReportedContents.a[1]
FirstItemIsObject == Len(ReportedContents.a) > 0 /\ FirstItem.t = "obj"
NoFieldsIn(item) == ~HasKey(item, "fields") \/ Lookup(item, "fields") = JObj(<<>>)
SomeFieldsIn(item) ==
    /\ HasKey(item, "fields") /\ Lookup(item, "fields").t = "obj"
    /\ Len(Lookup(item, "fields").o) > 0

\* C6: the reporter tells three outcomes apart.  With no content items it
\* prints the "no content items" diagnostic and nothing else; with a first
\* item whose fields are empty or absent it prints the "no fields extracted"
\* diagnostic, and the "grounding content present, extraction failed" lines
\* exactly when the item's markdown or text is a non-empty string; with
\* a non-empty fields mapping it prints the fields header and no diagnostic.
\* No report holds the marks of two outcomes.
C6_ThreeOutcomes ==
    ReportedList =>
        LET K == Kinds(out) IN
        /\ Len(ReportedContents.a) = 0 =>
              /\ pc = "done"
              /\ K = {"done_saved", "extracted_items", "no_content_items",
                      "check_document_url"}
        /\ (FirstItemIsObject /\ NoFieldsIn(FirstItem)) =>
              /\ pc = "done"
              /\ "no_fields_extracted" \in K
              /\ K \cap {"no_content_items", "extracted_fields", "field"} = {}
              /\ "grounding_present" \in K <=>
                    (NonEmptyText(FirstItem, "markdown") \/ NonEmptyText(FirstItem, "text"))
              /\ "field_extraction_failed" \in K <=> "grounding_present" \in K
        /\ (FirstItemIsObject /\ SomeFieldsIn(FirstItem)) =>
              /\ "extracted_fields" \in K
              /\ K \cap {"no_content_items", "no_fields_extracted", "grounding_present",
                         "field_extraction_failed"} = {}
              /\ (\A i \in 1..Len(Lookup(FirstItem, "fields").o) :
                      TypedValue(Lookup(FirstItem, "fields").o[i][2]))
                 => pc = "done" /\ "field" \in K

\* fields {} with markdown "some text": the grounding branch, not "no content".
C6_Witness ==
    /\ ReportedList /\ pc = "done"
    /\ ReportedContents.a = <<MakeItem(JObj(<<>>), JStr("some text"), Absent)>>
    /\ "grounding_present" \in Kinds(out)
    /\ "no_content_items" \notin Kinds(out)

\* C7: the Result Reporter never raises: no run ends by an exception raised in
\* the reporting part of main, whatever Succeeded response was returned.
C7_ReporterNeverRaises == ~(pc = "raised" /\ err.in = "report")

\* The last GET failed: no response came back, or one with an error status.
PollRequestFailed == gets > 0 /\ (~get.sent \/ get.code \in 400..599)

\* C8: a transport failure or an error status on a poll GET, at any
\* iteration, ends the run at once with that error: no sleep and no GET
\* follow it, nothing is returned, and the result file is not written.
C8_PollErrorNotRetried ==
    PollRequestFailed =>
        /\ pc = "raised" /\ err.in = "poll_get"
        /\ err.type = IF get.sent THEN "HTTPError" ELSE "ConnectionError"
        /\ gets = pending + 1 /\ sleeps = pending
        /\ analysis_result = NoValue
        /\ writes = 0 /\ cu_result_json = files0.result
        /\ Stopped

\* A transport failure on the third GET, after two pending responses.
C8_Witness ==
    /\ PollRequestFailed /\ ~get.sent /\ pending = 2 /\ gets = 3
    /\ pc = "raised" /\ files0.result # NoFile

\* What start_analysis does when the POST's status is an error.
SubmissionFailed ==
    /\ pc = "raised" /\ err.type = "HTTPError" /\ err.in = "submit"
    /\ ~post.logged /\ requests_txt = files0.log
    /\ ~post.read_oploc
    /\ op_url = PyNone /\ gets = 0

\* C9 as claimed: for every status that is not 2xx, 1xx and 3xx included,
\* start_analysis fails with an HTTP error, appends nothing to the request-id
\* log, does not read Operation-Location and returns no handle.
C9_AsClaimed ==
    (post.r.sent /\ post.r.code \notin 200..299) => SubmissionFailed

\* C9, amended: for every 4xx or 5xx status of the response to the POST,
\* start_analysis fails with an HTTP error, appends nothing to the request-id
\* log, does not read Operation-Location and returns no handle; a response
\* with any other status, 3xx included, is handled as a success.
C9_ErrorStatus ==
    post.r.sent =>
        IF post.r.code \in 400..599
        THEN SubmissionFailed /\ Stopped
        ELSE /\ post.read_oploc
             /\ err.type \in {"none", "RuntimeError"}
             /\ post.logged <=> (post.r.xms \notin {PyNone, ""} \/ post.r.apim \notin {PyNone, ""})

\* A 404 carrying a request id and an Operation-Location: nothing was logged.
C9_Witness ==
    /\ post.r.sent /\ post.r.code = 404
    /\ post.r.xms = "rid-x" /\ post.r.oploc = "opA"
    /\ SubmissionFailed /\ files0.log = <<"rid-0">>

\* C10: the save-and-report step run a second time on the same result prints
\* the same lines, ends the same way and leaves the same text in the result
\* file as the first time, whatever the file held before; and the step
\* changes neither the token cache nor the request-id log.
C10_Idempotent ==
    /\ (first_report.made /\ pc \in {"done", "raised"}) =>
          /\ out = first_report.printed
          /\ cu_result_json = first_report.file
          /\ err.type = first_report.exc
    /\ requests_txt = files0.log
    /\ token_cache = [token |-> "tokA", expires |-> StartTime + CacheWindow]

\* The second report of a result ended, over a file an earlier run had left.
C10_Witness ==
    /\ first_report.made /\ pc = "done" /\ writes = 2
    /\ files0.result # NoFile /\ files0.result # cu_result_json
    /\ Len(FieldLines(out)) = 2
    /\ out = first_report.printed

\* The value of a typed field under `key`, as text ("None" without it).
ValueText(v, key) == IF HasKey(v, key) THEN PyStr(Lookup(v, key)) ELSE "None"
\* The text the claim gives a typed field value, by its "type".
RenderedByType(v) ==
    LET ty == IF HasKey(v, "type") THEN Lookup(v, "type") ELSE Absent IN
    CASE ty = JStr("string") -> ValueText(v, "valueString")
      [] ty = JStr("number") -> ValueText(v, "valueNumber")
      [] ty = JStr("date") -> ValueText(v, "valueDate")
      [] ty = JStr("array") ->
            "[" \o ToString(IF HasKey(v, "valueArray")
                            THEN Len(Lookup(v, "valueArray").a) ELSE 0) \o " items]"
      [] ty = JStr("object") -> "[object]"
      [] ty = Absent -> "(unknown)"
      [] OTHER -> "(" \o PyStr(ty) \o ")"
\* The first item has a non-empty fields mapping whose values are typed.
FirstItemHasTypedFields ==
    /\ ReportedList /\ FirstItemIsObject /\ SomeFieldsIn(FirstItem)
    /\ \A i \in 1..Len(Lookup(FirstItem, "fields").o) :
          TypedValue(Lookup(FirstItem, "fields").o[i][2])

\* C11: when contents has one or more items and the first has a non-empty
\* fields mapping (of typed values), the report ends having printed one field
\* line per field of item 0, in order and under the field's name, and none for
\* a later item; the text of a line is valueString for a string, valueNumber
\* for a number, valueDate for a date, "[n items]" with n the length of
\* valueArray for an array, "[object]" for an object, and the type name in
\* parentheses for any other type ("(unknown)" without a type).
C11_FirstItemFields ==
    FirstItemHasTypedFields =>
        LET fields == Lookup(FirstItem, "fields").o
            lines == FieldLines(out)
        IN /\ pc = "done"
           /\ Len(lines) = Len(fields)
           /\ \A i \in 1..Len(fields) :
                 /\ lines[i].name = fields[i][1]
                 /\ lines[i].text = RenderedByType(fields[i][2])
           /\ FirstItem = TypedItem =>
                 [i \in 1..Len(lines) |-> lines[i].text] =
                     <<"Acme", "42", "2025-01-31", "[2 items]", "[object]",
                       "(boolean)", "(unknown)">>

\* The seven typed fields of the first item were printed, the field of the
\* second item was not.
C11_Witness ==
    /\ FirstItemHasTypedFields /\ pc = "done"
    /\ ReportedContents.a = <<TypedItem, OtherItem>>
    /\ Len(FieldLines(out)) = 7
    /\ \A i \in 1..7 : FieldLines(out)[i].name # "Second"

\* start_analysis has handled the response to its POST (main has not gone on).
PostHandled == posts = 1 /\ "logged" \in DOMAIN post
\* One of the failures of a run, by what the run has seen: the identity
\* provider refused a token, the POST failed or was answered by an error status
\* or without a usable Operation-Location, a poll was answered Failed or
\* Canceled, or a poll GET failed.
RunFailed ==
    \/ calls[2].made /\ ~calls[2].ok
    \/ PostHandled /\ (~post.r.sent \/ post.r.code \in 400..599
                        \/ post.r.oploc \in {PyNone, ""})
    \/ Answered(JStr("Failed")) \/ Answered(JStr("Canceled"))
    \/ PollRequestFailed

\* C12: every error ends the run and nothing is salvaged.  The result file is
\* written only once a Succeeded poll response has been observed, and holds
\* that response; after an authentication failure, a failed submission, a
\* missing Operation-Location, a Failed or Canceled status or a failed poll
\* request the run has ended with an exception, nothing was returned, printed
\* or written, the result file is what the run found, and no step is left.
C12_ErrorsTerminal ==
    /\ writes > 0 =>
          /\ Answered(JStr("Succeeded"))
          /\ cu_result_json = Dump(get.body)
    /\ RunFailed =>
          /\ pc = "raised" /\ err.in \in {"start", "submit", "poll_token", "poll_get"}
          /\ analysis_result = NoValue /\ out = <<>>
          /\ writes = 0 /\ cu_result_json = files0.result
          /\ Stopped
    /\ (pc = "raised" /\ err.in # "report") =>
          writes = 0 /\ cu_result_json = files0.result

\* A run ended by a Failed response after a pending one, the result file of
\* an earlier run still in place.
C12_Witness ==
    /\ RunFailed /\ Answered(JStr("Failed")) /\ pending = 1
    /\ pc = "raised" /\ writes = 0
    /\ files0.result # NoFile /\ cu_result_json = files0.result

\* The last get_token call failed: the identity provider issued no token.
TokenRefused == calls[2].made /\ ~calls[2].ok
\* The cache slot, and the count of requests to the identity provider, as the
\* last get_token call found them.
CacheBefore == IF calls[1].made THEN calls[1].after ELSE EmptyCache
IdpCallsBefore == IF calls[1].made THEN calls[1].idp ELSE 0

\* C13: when the identity provider fails to issue a token, get_token has
\* asked it once, the failure has left get_token and ended the run, and the
\* cache slot, token and expiry, is as the call found it.  When this happens
\* before submission no POST was issued and the log is untouched; when it
\* happens on a refresh in the poll loop, every GET so far was answered
\* pending and none follows.  In both cases no step is left to take.
C13_TokenFailure ==
    TokenRefused =>
        /\ calls[2].called
        /\ calls[2].idp = IdpCallsBefore + 1 /\ idp_calls = calls[2].idp
        /\ calls[2].after = CacheBefore /\ token_cache = CacheBefore
        /\ pc = "raised" /\ err.type = "ClientAuthenticationError"
        /\ err.in \in {"start", "poll_token"}
        /\ err.in = "start" =>
              /\ posts = 0 /\ gets = 0
              /\ requests_txt = files0.log /\ token_cache = EmptyCache
        /\ err.in = "poll_token" =>
              /\ posts = 1 /\ gets = pending /\ sleeps = pending
              /\ token_cache.token \in Tokens /\ token_cache.expires <= now
        /\ writes = 0 /\ analysis_result = NoValue
        /\ Stopped

\* A refresh refused in the poll loop, after two pending polls: the expired
\* token is still in the cache.
C13_Witness ==
    /\ TokenRefused /\ err.in = "poll_token" /\ pending = 2 /\ gets = 2
    /\ token_cache.token \in Tokens /\ token_cache.expires <= now
    /\ pc = "raised"

\* main is in poll_until_done, or past it.
PollerCalled == posts = 1 /\ post = NoPost /\ pc \notin {"start", "submit", "poll_start"}
\* Every GET so far was answered by a non-terminal status and no token was
\* refused.
OnlyPendingSoFar == PollerCalled /\ gets = pending /\ ~TokenRefused

\* C14: as long as every poll response is non-terminal and no request fails,
\* poll_until_done has neither returned nor raised, whatever the number of
\* GETs: main is still in the loop, and the loop's next step (the token, the
\* GET, the sleep) can be taken after any number of GETs below the bound of
\* the model.
C14_PollingUnbounded ==
    OnlyPendingSoFar =>
        /\ pc \in {"poll_token", "poll_get", "poll_sleep"}
        /\ analysis_result = NoValue /\ err = NoError /\ writes = 0
        /\ sleeps \in {gets - 1, gets}
        /\ (pc = "poll_token" /\ gets < MaxPolls) => ENABLED poll_get_token
        /\ pc = "poll_get" => ENABLED poll_request
        /\ pc = "poll_sleep" => ENABLED poll_sleep

\* As many GETs as the model allows were answered pending, as many sleeps
\* taken, and main is at the top of the loop again.
C14_Witness ==
    /\ OnlyPendingSoFar /\ gets = MaxPolls /\ sleeps = MaxPolls
    /\ pc = "poll_token" /\ now >= StartTime + MaxPolls * SleepInterval

\* The steps of main in the order of the source: the first token, the POST,
\* the poll loop, the file, the report, the end (the exception that ends a run
\* comes last).
Stage(p) ==
    CASE p = "start" -> 0
      [] p = "submit" -> 1
      [] p = "poll_start" -> 2
      [] p \in {"poll_token", "poll_get", "poll_sleep"} -> 3
      [] p = "save" -> 4
      [] p = "report" -> 5
      [] p = "done" -> 6
      [] p = "raised" -> 7
\* What the order of the steps leaves true at any time of a run.
LinearSoFar ==
    /\ posts <= 1 /\ writes <= 1
    /\ posts = 1 => idp_calls >= 1
    /\ gets > 0 => /\ posts = 1 /\ post = NoPost
                   /\ op_url \in OperationLocations \ {PyNone, ""}
                   /\ get_url = op_url
    /\ gets = 0 => get_url = PyNone
    /\ writes = 1 => gets > 0 /\ Answered(JStr("Succeeded"))
    /\ out # <<>> => writes = 1
\* What a step of a run may do, given what was done before it.
LinearStep ==
    /\ Stage(pc') >= Stage(pc)
    /\ posts' # posts => /\ posts' = 1 /\ Stage(pc) = 1
                         /\ calls[2].made /\ calls[2].ok /\ token \in Tokens
                         /\ gets = 0 /\ writes = 0
    /\ op_url' # op_url => posts' # posts
    /\ gets' # gets => /\ gets' = gets + 1 /\ Stage(pc) = 3
                       /\ posts = 1 /\ get_url' = op_url
                       /\ writes = 0 /\ out = <<>>
    /\ writes' # writes => /\ writes' = 1 /\ Stage(pc) = 4
                           /\ gets' = gets /\ out = <<>>
    /\ out' # out => writes' = 1 /\ Stage(pc) \in {4, 5}
    /\ writes = 1 => posts' = posts /\ gets' = gets /\ idp_calls' = idp_calls

\* C15: the control flow of a run is linear.  The first token is acquired
\* before the POST; at most one POST is issued; every GET is issued after the
\* POST returned an operation URL, and to that URL; the result file is
\* written once, after the last GET; the report is printed after the write;
\* and no step of main is gone back to once a later one has begun (only the
\* poll loop repeats its own three steps).
C15_LinearFlow == LinearSoFar /\ [][LinearSoFar' /\ LinearStep]_vars

\* A complete run: a token, a POST, three GETs to the URL it returned, the
\* file, the report.
C15_Witness ==
    /\ pc = "done" /\ idp_calls >= 1 /\ posts = 1 /\ gets = 3
    /\ get_url = op_url /\ op_url = "opB"
    /\ writes = 1 /\ Len(out) > 1

\* C16: every iteration of the poll loop obtains a valid token before its
\* GET: whatever lifetime the identity provider gave the token and however
\* long the polling lasts, the token get_token hands to the GET is not past its
\* real expiry at that time.
C16_ValidToken ==
    pc = "poll_get" => (calls[2].ok /\ token \in Tokens /\ calls[2].at < real_expiry)

\* The request id of a response: x-ms-request-id when it is there and not
\* empty, apim-request-id otherwise.
HasText(h) == h \notin {PyNone, ""}
HasRequestId(r) == HasText(r.xms) \/ HasText(r.apim)
RequestIdOf(r) == IF HasText(r.xms) THEN r.xms ELSE r.apim
\* The log is what the run found, with at most one line after it.
LogAppendOnly ==
    /\ Len(requests_txt) \in {Len(files0.log), Len(files0.log) + 1}
    /\ SubSeq(requests_txt, 1, Len(files0.log)) = files0.log

\* C17 as claimed: a line is appended to the request-id log exactly when the
\* POST returned a success (2xx) status and the response carries a non-empty
\* x-ms-request-id or apim-request-id.
C17_AsClaimed ==
    PostHandled =>
        (requests_txt # files0.log <=>
            (post.r.sent /\ post.r.code \in 200..299 /\ HasRequestId(post.r)))

\* What is true of the log at any time of a run.
RequestLogSoFar ==
    /\ LogAppendOnly
    /\ posts = 0 => requests_txt = files0.log
    /\ PostHandled =>
          requests_txt =
              IF post.r.sent /\ post.r.code \notin 400..599 /\ HasRequestId(post.r)
              THEN Append(files0.log, RequestIdOf(post.r))
              ELSE files0.log

\* C17, amended: the request-id log is append-only and grows by at most one
\* line per run.  A line is appended exactly when the POST was answered by a
\* status that is not a 4xx or 5xx error and the response carries a non-empty
\* x-ms-request-id or apim-request-id; the line is the former if it is not
\* empty, the latter otherwise; whether Operation-Location is there plays no
\* part, so the line is also appended in runs that fail for the missing header.
\* Only the submission step changes the log, and the lines the run found are
\* kept as they were.
C17_RequestLog ==
    RequestLogSoFar
    /\ [][/\ RequestLogSoFar'
          /\ requests_txt' # requests_txt =>
                /\ pc = "submit" /\ posts' = posts + 1
                /\ Len(requests_txt') = Len(requests_txt) + 1]_vars

\* A 2xx response without Operation-Location, its x-ms-request-id empty: the
\* apim-request-id was appended after the line of an earlier run, and the run
\* failed for the missing header.
C17_Witness ==
    /\ PostHandled /\ post.r.sent /\ post.r.code = 202
    /\ post.r.xms = "" /\ post.r.apim = "rid-a" /\ post.r.oploc = PyNone
    /\ requests_txt = <<"rid-0", "rid-a">>
    /\ pc = "raised" /\ err.type = "RuntimeError"

\* poll_until_done is over: it returned (main is at the file write) or raised.
PollerReturned == pc = "save"
PollerRaised == pc = "raised"
\* A GET was answered by a terminal status.
TerminalObserved == gets > pending

\* C18: when the operation reaches a terminal status, no token acquisition
\* and no GET fails and every step of the loop completes, poll_until_done
\* terminates.  It has returned exactly when the first terminal status it
\* observed is Succeeded, with that response, and raised exactly when that
\* status is Failed or Canceled; it is over as soon as a terminal status is
\* observed, and no GET follows that observation.
C18_Terminates ==
    /\ <>(PollerReturned \/ PollerRaised)
    /\ [](TerminalObserved <=> (PollerReturned \/ PollerRaised))
    /\ [](TerminalObserved => gets = pending + 1 /\ sleeps = pending)
    /\ [](PollerReturned <=> Answered(JStr("Succeeded")))
    /\ [](PollerReturned => analysis_result = get.body)
    /\ [](PollerRaised <=> (Answered(JStr("Failed")) \/ Answered(JStr("Canceled"))))
    /\ [](PollerRaised => err.type = "RuntimeError" /\ analysis_result = NoValue)
    /\ [][TerminalObserved => gets' = gets /\ get' = get]_vars

\* The loop ended at the last GET the service could answer pending: two
\* pending answers, then Canceled, and the poller raised.
C18_Witness ==
    /\ PollerRaised /\ Answered(JStr("Canceled"))
    /\ gets = MaxPolls /\ pending = MaxPolls - 1 /\ sleeps = pending
    /\ get_url = "opB"

====
